---- MODULE Spec2Model ----
(***************************************************************************)
(* Model of scripts/analyze-i18n-keys.py: flattening of the key document,  *)
(* the direct / dynamic scan of every source file, the deep scan over the  *)
(* remaining keys, the classification loop and the test-only pass.         *)
(*                                                                         *)
(* Text is a sequence of one-character strings.  A file's content is a     *)
(* sequence of lexical occurrences (Token): the shapes the regular         *)
(* expressions of the script anchor on, each with the quote it opens with  *)
(* and the characters up to the closing quote (or parenthesis).            *)
(***************************************************************************)
EXTENDS Integers, Sequences, FiniteSets, TLC

VARIABLES en_data, source_files, disk, pc, idx,
          all_keys, defined_keys_set,
          used_keys, key_usage_locations, dynamic_patterns,
          remaining_keys, deep_recovered, deep_locations,
          used, possibly_dynamic, unused, test_only, result

vars == <<en_data, source_files, disk, pc, idx, all_keys, defined_keys_set,
          used_keys, key_usage_locations, dynamic_patterns,
          remaining_keys, deep_recovered, deep_locations,
          used, possibly_dynamic, unused, test_only, result>>

-----------------------------------------------------------------------------
(* Bounds of the model.                                                    *)

\* at most this many source files in one run
MaxFiles == 2
\* at most this many entries in the outer mapping of a generated key document
MaxEntries == 2

-----------------------------------------------------------------------------
(* Text helpers: Python str operations on sequences of characters.         *)

\* the characters the model uses, in code-point order (Python compares str
\* by code point: punctuation, digits, upper case, underscore, lower case)
Alphabet == <<" ", "$", ",", ".", "/", "1", "T", "_", "a", "b", "c", "e",
              "f", "j", "k", "l", "m", "o", "p", "q", "s", "t", "x", "y",
              "z", "{", "}">>

Ord(ch) == CHOOSE n \in 1..Len(Alphabet) : Alphabet[n] = ch

Letters == {"T", "a", "b", "c", "e", "f", "j", "k", "l", "m", "o", "p", "q",
            "s", "t", "x", "y", "z"}

Digits == {"1"}

\* str.lower() of one character, then of a string
LowerChar(ch) == IF ch = "T" THEN "t" ELSE ch

Lower(s) == [n \in 1..Len(s) |-> LowerChar(s[n])]

\* s.startswith(p)
StartsWith(s, p) == Len(p) <= Len(s) /\ SubSeq(s, 1, Len(p)) = p

\* s.endswith(p)
EndsWith(s, p) ==
    Len(p) <= Len(s) /\ SubSeq(s, Len(s) - Len(p) + 1, Len(s)) = p

\* p in s
Contains(s, p) ==
    \E n \in 1..(Len(s) - Len(p) + 1) : SubSeq(s, n, n + Len(p) - 1) = p

\* s.rstrip('.')
RECURSIVE RStripDots(_)
RStripDots(s) ==
    IF s # <<>> /\ s[Len(s)] = "." THEN RStripDots(SubSeq(s, 1, Len(s) - 1))
    ELSE s

\* s < t for Python str: lexicographic by code point
RECURSIVE StrLess(_, _)
StrLess(s, t) ==
    IF t = <<>> THEN FALSE
    ELSE IF s = <<>> THEN TRUE
    ELSE IF s[1] = t[1] THEN StrLess(Tail(s), Tail(t))
    ELSE Ord(s[1]) < Ord(t[1])

\* sorted(S) for a set of str
RECURSIVE Sorted(_)
Sorted(S) ==
    IF S = {} THEN <<>>
    ELSE LET m == CHOOSE x \in S : \A y \in S \ {x} : StrLess(x, y)
         IN <<m>> \o Sorted(S \ {m})

\* sep.join(parts)
RECURSIVE Join(_, _)
Join(sep, parts) ==
    IF parts = <<>> THEN <<>>
    ELSE IF Len(parts) = 1 THEN parts[1]
    ELSE parts[1] \o sep \o Join(sep, Tail(parts))

Range(f) == {f[x] : x \in DOMAIN f}

-----------------------------------------------------------------------------
(* Program constants.                                                      *)

\* ROOT, the directory the walk starts from and paths are made relative to
ROOT == <<"/", "m">>

\* TEST_INDICATORS
TEST_INDICATORS ==
    { <<"t", "e", "s", "t">>,
      <<"_", "_", "t", "e", "s", "t", "s", "_", "_">>,
      <<".", "t", "e", "s", "t", ".">>,
      <<".", "s", "p", "e", "c", ".">>,
      <<"_", "_", "m", "o", "c", "k", "s", "_", "_">> }

\* os.path.join(ROOT, rel)
AbsPath(rel) == ROOT \o <<"/">> \o rel

\* os.path.relpath(filepath, root) for a file below root
RelPath(filepath, root) == SubSeq(filepath, Len(root) + 2, Len(filepath))

\* the guard that skips locale JSON files in both scans
IsLocaleJson(filepath) ==
    /\ Contains(filepath, <<"/", "l", "o", "c", "a", "l", "e", "s", "/">>)
    /\ EndsWith(filepath, <<".", "j", "s", "o", "n">>)

is_test_file(rel_path) ==
    \E ind \in TEST_INDICATORS : Contains(Lower(rel_path), ind)

-----------------------------------------------------------------------------
(* The key document and flatten_keys.                                      *)
(* A mapping is a sequence of entries in insertion order (a Python dict),  *)
(* keys distinct; a value is a leaf or a nested mapping.                   *)

Leaf(ty, s) == [isdict |-> FALSE, ty |-> ty, s |-> s, items |-> <<>>]

Dict(items) == [isdict |-> TRUE, ty |-> "dict", s |-> <<>>, items |-> items]

Entry(k, v) == [k |-> k, v |-> v]

\* str(v) of a leaf: a str is itself, an int is its decimal digits, None is
\* the text None; the leaf record holds the text in s for each of the types
Str(v) ==
    IF v.ty = "none" THEN <<"N", "o", "n", "e">> ELSE v.s

\* d[k] = v on an insertion-ordered dict: an existing key keeps its place
DictSet(d, k, v) ==
    IF \E n \in 1..Len(d) : d[n].k = k
    THEN [n \in 1..Len(d) |-> IF d[n].k = k THEN Entry(k, v) ELSE d[n]]
    ELSE Append(d, Entry(k, v))

\* d.update(e)
RECURSIVE DictUpdate(_, _)
DictUpdate(d, e) ==
    IF e = <<>> THEN d
    ELSE DictUpdate(DictSet(d, e[1].k, e[1].v), Tail(e))

DictKeys(d) == {d[n].k : n \in 1..Len(d)}

\* full_key = f"{prefix}.{k}" if prefix else k
FullKey(prefix, k) == IF prefix # <<>> THEN prefix \o <<".">> \o k ELSE k

RECURSIVE flatten_keys(_, _)
RECURSIVE FlattenFrom(_, _, _)
\* the loop of flatten_keys over obj.items(), keys being the dict built so far
FlattenFrom(items, prefix, keys) ==
    IF items = <<>> THEN keys
    ELSE LET k == items[1].k
             v == items[1].v
             full_key == FullKey(prefix, k)
         IN FlattenFrom(Tail(items), prefix,
                IF v.isdict
                THEN DictUpdate(keys, flatten_keys(v.items, full_key))
                ELSE DictSet(keys, full_key, Str(v)))

flatten_keys(obj, prefix) == FlattenFrom(obj, prefix, <<>>)

-----------------------------------------------------------------------------
(* Source text.  A Token is one occurrence the scanners can anchor on:     *)
(*   tcall      t(<q>text<q>     q single, double or backtick              *)
(*   i18nKey    i18nKey=<q>text<q>               q single or double        *)
(*   formatted  <FormattedMessage id=<q>text<q>  q single or double        *)
(*   quoted     <q>text<q> outside any call      q single or double        *)
(*   varcall    t(text) with text an identifier path, no quote             *)
(* text holds no quote character.                                          *)

Token(kind, q, text) == [kind |-> kind, q |-> q, text |-> text]

\* the three quote characters, by name
SQ == "single"
DQ == "double"
BQ == "backtick"

\* [a-zA-Z][a-zA-Z0-9]*
IsSegment(s) ==
    /\ s # <<>>
    /\ s[1] \in Letters
    /\ \A n \in 2..Len(s) : s[n] \in Letters \cup Digits

\* [a-zA-Z][a-zA-Z0-9]*(?:\.[a-zA-Z][a-zA-Z0-9]*)+ against the whole text
IsDotPath(s) ==
    LET dots == {n \in 1..Len(s) : s[n] = "."}
        cuts == {0} \cup dots \cup {Len(s) + 1}
    IN /\ dots # {}
       /\ \A a \in cuts : \A b \in cuts :
            (a < b /\ \A c \in cuts : ~(a < c /\ c < b))
                => IsSegment(SubSeq(s, a + 1, b - 1))

\* the three finditer loops of extract_t_calls, per occurrence
DirectMatch(tok) ==
    \/ /\ tok.kind = "tcall"
       /\ tok.text # <<>>
       /\ \A n \in 1..Len(tok.text) : tok.text[n] # "$"
    \/ /\ tok.kind \in {"i18nKey", "formatted"}
       /\ tok.text # <<>>

extract_t_calls(content) ==
    {content[n].text : n \in {m \in 1..Len(content) : DirectMatch(content[m])}}

\* the template regular expression of extract_dynamic_patterns: a backtick
\* argument holding a placeholder opener
TemplateMatch(tok) ==
    /\ tok.kind = "tcall"
    /\ tok.q = BQ
    /\ Contains(tok.text, <<"$", "{">>)

None == [isNone |-> TRUE, s |-> <<>>]
Some(s) == [isNone |-> FALSE, s |-> s]

\* Python truthiness of a prefix: None and "" are false
Truthy(prefix) == ~prefix.isNone /\ prefix.s # <<>>

\* prefix_match: the text before the first dollar sign, non-empty and
\* followed by the placeholder opener
HasPrefixMatch(template) ==
    LET first == CHOOSE n \in 1..Len(template) :
                    template[n] = "$" /\ \A m \in 1..(n - 1) : template[m] # "$"
    IN /\ first > 1
       /\ first < Len(template)
       /\ template[first + 1] = "{"

PrefixOf(template) ==
    LET first == CHOOSE n \in 1..Len(template) :
                    template[n] = "$" /\ \A m \in 1..(n - 1) : template[m] # "$"
    IN RStripDots(SubSeq(template, 1, first - 1))

ReservedNames == { <<"t", "r", "u", "e">>, <<"f", "a", "l", "s", "e">>,
                   <<"n", "u", "l", "l">>,
                   <<"u", "n", "d", "e", "f", "i", "n", "e", "d">>,
                   <<"t", "h", "i", "s">> }

VariableMatch(tok) == tok.kind = "varcall" /\ tok.text \notin ReservedNames

VariableLabel == <<"v", "a", "r", "i", "a", "b", "l", "e", ":", " ">>

RECURSIVE TemplatePatterns(_, _)
TemplatePatterns(content, filepath) ==
    IF content = <<>> THEN <<>>
    ELSE (IF TemplateMatch(content[1]) /\ HasPrefixMatch(content[1].text)
          THEN << [pattern |-> content[1].text,
                   prefix |-> Some(PrefixOf(content[1].text)),
                   file |-> filepath] >>
          ELSE <<>>) \o TemplatePatterns(Tail(content), filepath)

RECURSIVE VariablePatterns(_, _)
VariablePatterns(content, filepath) ==
    IF content = <<>> THEN <<>>
    ELSE (IF VariableMatch(content[1])
          THEN << [pattern |-> VariableLabel \o content[1].text,
                   prefix |-> None,
                   file |-> filepath] >>
          ELSE <<>>) \o VariablePatterns(Tail(content), filepath)

extract_dynamic_patterns(content, filepath) ==
    TemplatePatterns(content, filepath) \o VariablePatterns(content, filepath)

\* the finditer of deep_scan_string_literals, per occurrence
DeepMatch(tok) ==
    /\ tok.kind \in {"tcall", "i18nKey", "formatted", "quoted"}
    /\ tok.q \in {SQ, DQ}
    /\ IsDotPath(tok.text)

DeepLiterals(content) ==
    {content[n].text : n \in {m \in 1..Len(content) : DeepMatch(content[m])}}

-----------------------------------------------------------------------------
(* defaultdict(set)                                                        *)

LocGet(locs, key) == IF key \in DOMAIN locs THEN locs[key] ELSE {}

\* the location set assigned, not united
LocAdd_Overwrite(locs, key, rel_path) ==
    [k \in DOMAIN locs \cup {key} |-> IF k = key THEN {rel_path} ELSE locs[k]]

\* key_usage_locations[key].add(rel_path)
LocAdd(locs, key, rel_path) ==
    [k \in DOMAIN locs \cup {key} |->
        IF k = key THEN LocGet(locs, k) \cup {rel_path} ELSE locs[k]]

RECURSIVE LocAddAll(_, _, _)
LocAddAll(locs, keys, rel_path) ==
    IF keys = {} THEN locs
    ELSE LET k == CHOOSE x \in keys : TRUE
         IN LocAddAll(LocAdd(locs, k, rel_path), keys \ {k}, rel_path)

EmptyMap == [k \in {} |-> {}]

-----------------------------------------------------------------------------
(* The loops of main and of deep_scan_string_literals, one iteration each. *)
(* d is the file system: d[filepath] holds the file's content and whether  *)
(* the open/read of phase 1 (open1) and of the deep scan (open2) succeeds. *)

\* phase 1 with used_keys and the locations replaced, not extended, by the
\* file's finds
Phase1File_Overwrite(acc, filepath, d) ==
    IF ~d[filepath].open1 THEN acc
    ELSE LET content == d[filepath].content
             rel_path == RelPath(filepath, ROOT)
             keys_found == extract_t_calls(content)
         IN [used_keys |-> keys_found,
             key_usage_locations |-> LocAddAll(EmptyMap, keys_found, rel_path),
             dynamic_patterns |-> acc.dynamic_patterns
                 \o extract_dynamic_patterns(content, rel_path)]

\* phase 1 with the failure of the read ignored
Phase1File_NoSkip(acc, filepath, d) ==
    LET content == d[filepath].content
        rel_path == RelPath(filepath, ROOT)
        keys_found == extract_t_calls(content)
    IN [used_keys |-> acc.used_keys \cup keys_found,
        key_usage_locations |->
            LocAddAll(acc.key_usage_locations, keys_found, rel_path),
        dynamic_patterns |-> acc.dynamic_patterns
            \o extract_dynamic_patterns(content, rel_path)]

\* one iteration of the phase-1 loop; acc holds used_keys,
\* key_usage_locations and dynamic_patterns
Phase1File(acc, filepath, d) ==
    IF ~d[filepath].open1 THEN acc
    ELSE LET content == d[filepath].content
             rel_path == RelPath(filepath, ROOT)
         IN IF IsLocaleJson(filepath) THEN acc
            ELSE LET keys_found == extract_t_calls(content)
                     dyn == extract_dynamic_patterns(content, rel_path)
                 IN [used_keys |-> acc.used_keys \cup keys_found,
                     key_usage_locations |->
                         LocAddAll(acc.key_usage_locations, keys_found, rel_path),
                     dynamic_patterns |-> acc.dynamic_patterns \o dyn]

\* the deep scan recording only the first file a key is recovered from
DeepFile_FirstOnly(acc, filepath, root, keys, d) ==
    IF ~d[filepath].open2 THEN acc
    ELSE LET hits == (DeepLiterals(d[filepath].content) \cap keys)
                        \ acc.recovered
         IN [recovered |-> acc.recovered \cup hits,
             recovery_locations |->
                 LocAddAll(acc.recovery_locations, hits,
                           RelPath(filepath, root))]

\* one iteration of the loop of deep_scan_string_literals; acc holds
\* recovered and recovery_locations
DeepFile(acc, filepath, root, keys, d) ==
    IF ~d[filepath].open2 THEN acc
    ELSE LET content == d[filepath].content
             rel_path == RelPath(filepath, root)
         IN IF IsLocaleJson(filepath) THEN acc
            ELSE LET hits == DeepLiterals(content) \cap keys
                 IN [recovered |-> acc.recovered \cup hits,
                     recovery_locations |->
                         LocAddAll(acc.recovery_locations, hits, rel_path)]

RECURSIVE DeepScanFrom(_, _, _, _, _)
DeepScanFrom(acc, files, root, keys, d) ==
    IF files = <<>> THEN acc
    ELSE DeepScanFrom(DeepFile(acc, files[1], root, keys, d),
                      Tail(files), root, keys, d)

deep_scan_string_literals(files, root, keys, d) ==
    DeepScanFrom([recovered |-> {}, recovery_locations |-> EmptyMap],
                 files, root, keys, d)

\* the inner loop without its break: the last matching pattern is kept
FirstPattern_Last(patterns, key) ==
    LET hits == {n \in 1..Len(patterns) :
                    /\ Truthy(patterns[n].prefix)
                    /\ StartsWith(key, patterns[n].prefix.s)}
    IN IF hits = {} THEN 0
       ELSE CHOOSE n \in hits : \A m \in hits : n >= m

\* the inner loop over dynamic_patterns: index of the first pattern whose
\* prefix is truthy and starts the key, 0 when there is none
FirstPattern(patterns, key) ==
    LET hits == {n \in 1..Len(patterns) :
                    /\ Truthy(patterns[n].prefix)
                    /\ StartsWith(key, patterns[n].prefix.s)}
    IN IF hits = {} THEN 0
       ELSE CHOOSE n \in hits : \A m \in hits : n <= m

StringLiteralReference == <<"string literal reference in source">>

\* which branch of the classification loop the key takes
BucketOf(key, ev) ==
    IF key \in ev.used_keys THEN "used"
    ELSE IF key \in ev.deep_recovered THEN "deep"
    ELSE IF FirstPattern(ev.dynamic_patterns, key) # 0 THEN "pattern"
    ELSE "unused"

MapPut(m, k, v) == [x \in DOMAIN m \cup {k} |-> IF x = k THEN v ELSE m[x]]

\* the classification with the second test an if, not an elif: a used key
\* goes on through the deep / pattern / unused chain
ClassifyKey_IfNotElif(maps, key, value, ev) ==
    LET m1 == IF key \in ev.used_keys
              THEN [maps EXCEPT !.used = MapPut(@, key,
                       [value |-> value,
                        locations |->
                            Sorted(LocGet(ev.key_usage_locations, key))])]
              ELSE maps
        n == FirstPattern(ev.dynamic_patterns, key)
    IN IF key \in ev.deep_recovered
       THEN [m1 EXCEPT !.possibly_dynamic = MapPut(@, key,
                [value |-> value,
                 matched_pattern |-> StringLiteralReference,
                 pattern_file |->
                     Join(<<",", " ">>, Sorted(LocGet(ev.deep_locations, key)))])]
       ELSE IF n # 0
       THEN [m1 EXCEPT !.possibly_dynamic = MapPut(@, key,
                [value |-> value,
                 matched_pattern |-> ev.dynamic_patterns[n].pattern,
                 pattern_file |-> ev.dynamic_patterns[n].file])]
       ELSE [m1 EXCEPT !.unused = MapPut(@, key, [value |-> value])]

\* one iteration of the classification loop; maps holds used,
\* possibly_dynamic and unused
ClassifyKey(maps, key, value, ev) ==
    LET b == BucketOf(key, ev)
    IN IF b = "used"
       THEN [maps EXCEPT !.used = MapPut(@, key,
                [value |-> value,
                 locations |-> Sorted(LocGet(ev.key_usage_locations, key))])]
       ELSE IF b = "deep"
       THEN [maps EXCEPT !.possibly_dynamic = MapPut(@, key,
                [value |-> value,
                 matched_pattern |-> StringLiteralReference,
                 pattern_file |->
                     Join(<<",", " ">>, Sorted(LocGet(ev.deep_locations, key)))])]
       ELSE IF b = "pattern"
       THEN LET dp == ev.dynamic_patterns[FirstPattern(ev.dynamic_patterns, key)]
            IN [maps EXCEPT !.possibly_dynamic = MapPut(@, key,
                   [value |-> value,
                    matched_pattern |-> dp.pattern,
                    pattern_file |-> dp.file])]
       ELSE [maps EXCEPT !.unused = MapPut(@, key, [value |-> value])]

\* any instead of all
TestOnlyKeys_Any(usedMap, locs) ==
    {key \in DOMAIN usedMap : \E loc \in LocGet(locs, key) : is_test_file(loc)}

\* the loop run over every string phase 1 matched, not over used
TestOnlyKeys_FromLocations(usedMap, locs) ==
    {key \in DOMAIN locs : \A loc \in locs[key] : is_test_file(loc)}

\* the test-only loop over the keys of used
TestOnlyKeys(usedMap, locs) ==
    {key \in DOMAIN usedMap : \A loc \in LocGet(locs, key) : is_test_file(loc)}

\* the report main dumps (the timestamp is left out)
BuildResult(keys, u, pd, un, tonly, patterns) ==
    [total_defined |-> Len(keys),
     used_count |-> Cardinality(DOMAIN u),
     possibly_dynamic_count |-> Cardinality(DOMAIN pd),
     unused_count |-> Cardinality(DOMAIN un),
     test_only_count |-> Cardinality(tonly),
     used |-> u,
     possibly_dynamic |-> pd,
     unused |-> un,
     test_only_keys |-> Sorted(tonly),
     dynamic_patterns |-> patterns]

Evidence(uk, kul, dr, dl, dp) ==
    [used_keys |-> uk, key_usage_locations |-> kul, deep_recovered |-> dr,
     deep_locations |-> dl, dynamic_patterns |-> dp]

-----------------------------------------------------------------------------
(* A whole run of main as a function of its inputs, built from the same    *)
(* loop bodies: used to compare runs on related inputs.                    *)

\* the deep scan handed every defined key
RemainingKeys_All(defined, direct) == defined

\* remaining_keys = defined_keys_set - used_keys
RemainingKeys(defined, direct) == defined \ direct

RECURSIVE Phase1From(_, _, _)
Phase1From(acc, files, d) ==
    IF files = <<>> THEN acc
    ELSE Phase1From(Phase1File(acc, files[1], d), Tail(files), d)

RECURSIVE ClassifyFrom(_, _, _)
ClassifyFrom(maps, items, ev) ==
    IF items = <<>> THEN maps
    ELSE ClassifyFrom(ClassifyKey(maps, items[1].k, items[1].v, ev),
                      Tail(items), ev)

EmptyMaps ==
    [used |-> [k \in {} |-> {}], possibly_dynamic |-> [k \in {} |-> {}],
     unused |-> [k \in {} |-> {}]]

EmptyAcc ==
    [used_keys |-> {}, key_usage_locations |-> EmptyMap,
     dynamic_patterns |-> <<>>]

\* the evidence the scans of a run gather
RunEvidence(doc, files, d) ==
    LET keys == flatten_keys(doc, <<>>)
        p1 == Phase1From(EmptyAcc, files, d)
        deep == deep_scan_string_literals(files, ROOT,
                    RemainingKeys(DictKeys(keys), p1.used_keys), d)
    IN Evidence(p1.used_keys, p1.key_usage_locations, deep.recovered,
                deep.recovery_locations, p1.dynamic_patterns)

\* the report main builds from the evidence of its scans
ReportFrom(doc, ev) ==
    LET keys == flatten_keys(doc, <<>>)
        maps == ClassifyFrom(EmptyMaps, keys, ev)
    IN BuildResult(keys, maps.used, maps.possibly_dynamic, maps.unused,
                   TestOnlyKeys(maps.used, ev.key_usage_locations),
                   ev.dynamic_patterns)

\* the report of a run
RunMain(doc, files, d) == ReportFrom(doc, RunEvidence(doc, files, d))

-----------------------------------------------------------------------------
(* Inputs.                                                                 *)

\* relative paths of the source files: an application file, a file whose
\* directory-less name lower-cases to a test indicator, a .spec. file
PathApp == <<"a", ".", "t", "s">>
PathTest == <<"T", "e", "s", "t", ".", "t", "s">>
PathSpec == <<"b", ".", "s", "p", "e", "c", ".", "j", "s">>

RelPaths == {PathApp, PathTest, PathSpec}

FilePaths == {AbsPath(p) : p \in RelPaths}

K_ab == <<"a", ".", "b">>
K_abc == <<"a", "b", ".", "c">>
L_zq == <<"z", ".", "q">>

TkDirect == Token("tcall", SQ, K_ab)
TkQuoted == Token("quoted", DQ, K_ab)
TkAttr == Token("i18nKey", DQ, K_abc)
TkOther == Token("tcall", SQ, L_zq)
TkTemplateA == Token("tcall", BQ, <<"a", ".", "$", "{", "x", "}">>)
TkTemplateAb == Token("tcall", BQ, <<"a", "b", ".", "$", "{", "x", "}">>)
TkTemplateDot == Token("tcall", BQ, <<".", "$", "{", "x", "}">>)
TkVariable == Token("varcall", "none", <<"k">>)

\* the texts a source file may hold
Contents ==
    { <<>>,
      <<TkDirect>>,
      <<TkQuoted>>,
      <<TkTemplateA>>,
      <<TkVariable, TkTemplateDot, TkTemplateAb>>,
      <<TkOther, TkAttr>> }

\* a file and the outcome of its two reads
FileStates == [content : Contents, open1 : BOOLEAN, open2 : BOOLEAN]

FileLists ==
    {fl \in UNION {[1..n -> FilePaths] : n \in 0..MaxFiles} :
        \A a \in 1..Len(fl) : \A b \in 1..Len(fl) : fl[a] = fl[b] => a = b}

\* key documents of the runs of main
StrLeaf(s) == Leaf("str", s)

KeyDocuments ==
    { << Entry(<<"a">>, Dict(<< Entry(<<"b">>, StrLeaf(<<"H">>)) >>)),
         Entry(<<"a", "b">>, Dict(<< Entry(<<"c">>, StrLeaf(<<"W">>)) >>)),
         Entry(<<"x">>, Dict(<< Entry(<<"y">>, StrLeaf(<<"Z">>)) >>)) >>,
      << Entry(<<"a">>, Dict(<< Entry(<<"b">>, StrLeaf(<<"H">>)) >>)),
         Entry(K_ab, Leaf("int", <<"1">>)),
         Entry(<<"a", "b">>, Dict(<< Entry(<<"c">>, StrLeaf(<<"W">>)) >>)) >> }

\* generated key documents for flatten_keys: one level of nesting, keys that
\* are empty or hold a dot among them
InnerSegments == {<<>>, <<"b">>}
OuterSegments == {<<>>, <<"a">>, <<"a", ".", "b">>}
Leaves == {Leaf("str", <<"x">>), Leaf("str", <<"1">>), Leaf("int", <<"1">>)}

Mappings(segs, values) ==
    {m \in UNION {[1..n -> [k : segs, v : values]] : n \in 0..MaxEntries} :
        \A a \in 1..Len(m) : \A b \in 1..Len(m) : m[a].k = m[b].k => a = b}

GenDocuments ==
    Mappings(OuterSegments,
             Leaves \cup {Dict(m) : m \in Mappings(InnerSegments, Leaves)})

-----------------------------------------------------------------------------
(* The run of main.                                                        *)

InitLocals ==
    /\ pc = "load"
    /\ idx = 0
    /\ all_keys = <<>>
    /\ defined_keys_set = {}
    /\ used_keys = {}
    /\ key_usage_locations = EmptyMap
    /\ dynamic_patterns = <<>>
    /\ remaining_keys = {}
    /\ deep_recovered = {}
    /\ deep_locations = EmptyMap
    /\ used = EmptyMaps.used
    /\ possibly_dynamic = EmptyMaps.possibly_dynamic
    /\ unused = EmptyMaps.unused
    /\ test_only = {}
    /\ result = <<>>

\* the fault model: the reads of at most one file of a run fail
Faulty(d, f) == ~d[f].open1 \/ ~d[f].open2

Disks(files) ==
    {d \in [Range(files) -> FileStates] :
        \A f \in DOMAIN d : \A g \in DOMAIN d :
            Faulty(d, f) /\ Faulty(d, g) => f = g}

Init ==
    /\ en_data \in KeyDocuments
    /\ source_files \in FileLists
    /\ disk \in Disks(source_files)
    /\ InitLocals

\* all_keys = flatten_keys(en_data); defined_keys_set; source_files is given
LoadKeys ==
    /\ pc = "load"
    /\ all_keys' = flatten_keys(en_data, <<>>)
    /\ defined_keys_set' = DictKeys(all_keys')
    /\ pc' = "phase1"
    /\ idx' = 1
    /\ UNCHANGED <<en_data, source_files, disk, used_keys, key_usage_locations,
                   dynamic_patterns, remaining_keys, deep_recovered,
                   deep_locations, used, possibly_dynamic, unused, test_only,
                   result>>

\* (the loop body's outcome is bound once, as a one-element choice)
Phase1Apply ==
    \E acc \in {Phase1File([used_keys |-> used_keys,
                            key_usage_locations |-> key_usage_locations,
                            dynamic_patterns |-> dynamic_patterns],
                           source_files[idx], disk)} :
       /\ used_keys' = acc.used_keys
       /\ key_usage_locations' = acc.key_usage_locations
       /\ dynamic_patterns' = acc.dynamic_patterns
       /\ idx' = idx + 1
       /\ UNCHANGED <<en_data, source_files, disk, pc, all_keys,
                      defined_keys_set, remaining_keys, deep_recovered,
                      deep_locations, used, possibly_dynamic, unused,
                      test_only, result>>

\* phase 1, a file that is read
Phase1Read ==
    /\ pc = "phase1"
    /\ idx <= Len(source_files)
    /\ disk[source_files[idx]].open1
    /\ Phase1Apply

\* phase 1, a file whose open or read raises
Phase1Skip ==
    /\ pc = "phase1"
    /\ idx <= Len(source_files)
    /\ ~disk[source_files[idx]].open1
    /\ Phase1Apply

\* remaining_keys = defined_keys_set - used_keys; deep_scan_string_literals
\* is entered
DeepCall ==
    /\ pc = "phase1"
    /\ idx > Len(source_files)
    /\ remaining_keys' = RemainingKeys(defined_keys_set, used_keys)
    /\ pc' = "deep"
    /\ idx' = 1
    /\ UNCHANGED <<en_data, source_files, disk, all_keys, defined_keys_set,
                   used_keys, key_usage_locations, dynamic_patterns,
                   deep_recovered, deep_locations, used, possibly_dynamic,
                   unused, test_only, result>>

DeepApply ==
    \E acc \in {DeepFile([recovered |-> deep_recovered,
                          recovery_locations |-> deep_locations],
                         source_files[idx], ROOT, remaining_keys, disk)} :
       /\ deep_recovered' = acc.recovered
       /\ deep_locations' = acc.recovery_locations
       /\ idx' = idx + 1
       /\ UNCHANGED <<en_data, source_files, disk, pc, all_keys,
                      defined_keys_set, used_keys, key_usage_locations,
                      dynamic_patterns, remaining_keys, used,
                      possibly_dynamic, unused, test_only, result>>

\* deep scan, a file that is read
DeepRead ==
    /\ pc = "deep"
    /\ idx <= Len(source_files)
    /\ disk[source_files[idx]].open2
    /\ DeepApply

\* deep scan, a file whose open or read raises
DeepSkip ==
    /\ pc = "deep"
    /\ idx <= Len(source_files)
    /\ ~disk[source_files[idx]].open2
    /\ DeepApply

\* deep_scan_string_literals returns; the classification loop starts
DeepReturn ==
    /\ pc = "deep"
    /\ idx > Len(source_files)
    /\ pc' = "classify"
    /\ idx' = 1
    /\ UNCHANGED <<en_data, source_files, disk, all_keys, defined_keys_set,
                   used_keys, key_usage_locations, dynamic_patterns,
                   remaining_keys, deep_recovered, deep_locations, used,
                   possibly_dynamic, unused, test_only, result>>

CurrentEvidence ==
    Evidence(used_keys, key_usage_locations, deep_recovered, deep_locations,
             dynamic_patterns)

\* one iteration of the classification loop
ClassifyApply ==
    \E maps \in {ClassifyKey([used |-> used,
                              possibly_dynamic |-> possibly_dynamic,
                              unused |-> unused],
                             all_keys[idx].k, all_keys[idx].v,
                             CurrentEvidence)} :
       /\ used' = maps.used
       /\ possibly_dynamic' = maps.possibly_dynamic
       /\ unused' = maps.unused
       /\ idx' = idx + 1
       /\ UNCHANGED <<en_data, source_files, disk, pc, all_keys,
                      defined_keys_set, used_keys, key_usage_locations,
                      dynamic_patterns, remaining_keys, deep_recovered,
                      deep_locations, test_only, result>>

\* the key is in used_keys
ClassifyUsed ==
    /\ pc = "classify"
    /\ idx <= Len(all_keys)
    /\ BucketOf(all_keys[idx].k, CurrentEvidence) = "used"
    /\ ClassifyApply

\* the key is in deep_recovered
ClassifyDeep ==
    /\ pc = "classify"
    /\ idx <= Len(all_keys)
    /\ BucketOf(all_keys[idx].k, CurrentEvidence) = "deep"
    /\ ClassifyApply

\* a dynamic pattern's prefix starts the key
ClassifyPattern ==
    /\ pc = "classify"
    /\ idx <= Len(all_keys)
    /\ BucketOf(all_keys[idx].k, CurrentEvidence) = "pattern"
    /\ ClassifyApply

\* nothing refers to the key
ClassifyUnused ==
    /\ pc = "classify"
    /\ idx <= Len(all_keys)
    /\ BucketOf(all_keys[idx].k, CurrentEvidence) = "unused"
    /\ ClassifyApply

\* the test-only loop
TestOnly ==
    /\ pc = "classify"
    /\ idx > Len(all_keys)
    /\ test_only' = TestOnlyKeys(used, key_usage_locations)
    /\ pc' = "emit"
    /\ UNCHANGED <<en_data, source_files, disk, idx, all_keys,
                   defined_keys_set, used_keys, key_usage_locations,
                   dynamic_patterns, remaining_keys, deep_recovered,
                   deep_locations, used, possibly_dynamic, unused, result>>

\* result = {...}; json.dump
Emit ==
    /\ pc = "emit"
    /\ result' = BuildResult(all_keys, used, possibly_dynamic, unused,
                             test_only, dynamic_patterns)
    /\ pc' = "done"
    /\ UNCHANGED <<en_data, source_files, disk, idx, all_keys,
                   defined_keys_set, used_keys, key_usage_locations,
                   dynamic_patterns, remaining_keys, deep_recovered,
                   deep_locations, used, possibly_dynamic, unused, test_only>>

Next ==
    \/ LoadKeys
    \/ Phase1Read
    \/ Phase1Skip
    \/ DeepCall
    \/ DeepRead
    \/ DeepSkip
    \/ DeepReturn
    \/ ClassifyUsed
    \/ ClassifyDeep
    \/ ClassifyPattern
    \/ ClassifyUnused
    \/ TestOnly
    \/ Emit

Spec == Init /\ [][Next]_vars

\* flatten_keys on generated documents
InitFlatten ==
    /\ en_data \in GenDocuments
    /\ source_files = <<>>
    /\ disk = <<>>
    /\ InitLocals

NextFlatten == LoadKeys

FlattenSpec == InitFlatten /\ [][NextFlatten]_vars

-----------------------------------------------------------------------------
(* Vocabulary of the properties.                                           *)

\* the classification loop has run over every key
AfterClassify ==
    \/ pc \in {"emit", "done"}
    \/ pc = "classify" /\ idx > Len(all_keys)

\* the bucket a report gives a key
BucketIn(r, key) ==
    IF key \in DOMAIN r.used THEN "USED"
    ELSE IF key \in DOMAIN r.possibly_dynamic THEN "POSSIBLY_DYNAMIC"
    ELSE IF key \in DOMAIN r.unused THEN "UNUSED"
    ELSE "NONE"

\* the files of the run whose phase-1 read succeeds and in which a direct
\* reference to the key stands
DirectFiles(key) ==
    {f \in Range(source_files) :
        disk[f].open1 /\ \E n \in 1..Len(disk[f].content) :
            DirectMatch(disk[f].content[n]) /\ disk[f].content[n].text = key}

\* the files of the run whose deep-scan read succeeds and in which the key
\* stands as a quoted dot-path literal
LiteralFiles(key) ==
    {f \in Range(source_files) :
        disk[f].open2 /\ \E n \in 1..Len(disk[f].content) :
            DeepMatch(disk[f].content[n]) /\ disk[f].content[n].text = key}

\* the files phase 1 has been through
Phase1Seen ==
    IF pc = "load" THEN {}
    ELSE IF pc = "phase1" THEN {source_files[n] : n \in 1..(idx - 1)}
    ELSE Range(source_files)

\* the sub-lists of a file list, order kept
RECURSIVE Restrict(_, _, _)
Restrict(files, S, n) ==
    IF n > Len(files) THEN <<>>
    ELSE (IF n \in S THEN <<files[n]>> ELSE <<>>) \o Restrict(files, S, n + 1)

SubLists(files) == {Restrict(files, S, 1) : S \in SUBSET (1..Len(files))}

\* the orders of a file list
Orders(files) ==
    {fl \in [1..Len(files) -> Range(files)] : Range(fl) = Range(files)}

\* s without its n-th element
RemoveAt(s, n) == SubSeq(s, 1, n - 1) \o SubSeq(s, n + 1, Len(s))

-----------------------------------------------------------------------------
(* C1 - Partition.  Once the classification loop has run, the keys of      *)
(* used, possibly_dynamic and unused are pairwise disjoint, their union is *)
(* exactly the set of flattened keys of the document, and in the report    *)
(* the three counts are the sizes of the three maps and sum to             *)
(* total_defined.                                                          *)
C1_Partition ==
    /\ AfterClassify =>
        /\ DOMAIN used \cup DOMAIN possibly_dynamic \cup DOMAIN unused
             = DictKeys(flatten_keys(en_data, <<>>))
        /\ DOMAIN used \cap DOMAIN possibly_dynamic = {}
        /\ DOMAIN used \cap DOMAIN unused = {}
        /\ DOMAIN possibly_dynamic \cap DOMAIN unused = {}
    /\ pc = "done" =>
        /\ result.used = used
        /\ result.possibly_dynamic = possibly_dynamic
        /\ result.unused = unused
        /\ result.used_count = Cardinality(DOMAIN used)
        /\ result.possibly_dynamic_count = Cardinality(DOMAIN possibly_dynamic)
        /\ result.unused_count = Cardinality(DOMAIN unused)
        /\ result.total_defined
             = Cardinality(DictKeys(flatten_keys(en_data, <<>>)))
        /\ result.used_count + result.possibly_dynamic_count
             + result.unused_count = result.total_defined

\* a finished run in which none of the three buckets is empty
C1_Witness ==
    /\ pc = "done"
    /\ result.used_count > 0
    /\ result.possibly_dynamic_count > 0
    /\ result.unused_count > 0

-----------------------------------------------------------------------------
(* C2 - Precedence.  The deep scan is handed exactly the defined keys that *)
(* phase 1, having been through every file, did not find; what it recovers *)
(* is disjoint from used_keys; and a defined key with a direct reference   *)
(* in a file phase 1 read and a quoted dot-path literal in a file the deep *)
(* scan read is in used and not in possibly_dynamic.                       *)
C2_Precedence ==
    /\ pc \in {"deep", "classify", "emit", "done"} =>
        /\ remaining_keys
             = {key \in defined_keys_set : DirectFiles(key) = {}}
        /\ deep_recovered \subseteq remaining_keys
        /\ deep_recovered \cap used_keys = {}
    /\ AfterClassify =>
        \A key \in defined_keys_set :
            DirectFiles(key) # {} /\ LiteralFiles(key) # {}
                => key \in DOMAIN used /\ key \notin DOMAIN possibly_dynamic

\* a finished run where a key has its direct reference in one file and its
\* quoted literal in another file, which is scanned first
C2_Witness ==
    /\ pc = "done"
    /\ \E key \in defined_keys_set :
        \E a \in 1..Len(source_files) : \E b \in 1..Len(source_files) :
            /\ a < b
            /\ source_files[a] \in LiteralFiles(key)
            /\ source_files[a] \notin DirectFiles(key)
            /\ source_files[b] \in DirectFiles(key)
            /\ BucketIn(result, key) = "USED"

-----------------------------------------------------------------------------
(* C3 - Monotonicity.  For every proper sub-list of the run's files (same   *)
(* file system): a key the run on the sub-list reports USED is USED in     *)
(* this run; and a key the sub-list run reports UNUSED, with a direct      *)
(* reference in a readable file this run has in addition, is USED in this  *)
(* run.                                                                    *)
C3_Monotonic ==
    pc = "done" =>
        \A sub \in SubLists(source_files) \ {source_files} :
            LET r == RunMain(en_data, sub, disk)
            IN \A key \in defined_keys_set :
                /\ BucketIn(r, key) = "USED" => BucketIn(result, key) = "USED"
                /\ ( /\ BucketIn(r, key) = "UNUSED"
                     /\ \E f \in DirectFiles(key) : f \notin Range(sub) )
                        => BucketIn(result, key) = "USED"

\* a finished run of two files or more in which a key is USED that the run
\* without the last file reports UNUSED, another key being USED in both
C3_Witness ==
    /\ pc = "done"
    /\ Len(source_files) >= 2
    /\ LET r == RunMain(en_data,
                    SubSeq(source_files, 1, Len(source_files) - 1), disk)
       IN /\ \E key \in defined_keys_set :
                BucketIn(r, key) = "UNUSED" /\ BucketIn(result, key) = "USED"
          /\ \E key \in defined_keys_set :
                BucketIn(r, key) = "USED" /\ BucketIn(result, key) = "USED"

-----------------------------------------------------------------------------
\* the positions of the recorded patterns whose non-empty prefix starts key
PrefixHits(key) ==
    {n \in 1..Len(dynamic_patterns) :
        /\ ~dynamic_patterns[n].prefix.isNone
        /\ Len(dynamic_patterns[n].prefix.s) > 0
        /\ Len(dynamic_patterns[n].prefix.s) <= Len(key)
        /\ \A c \in 1..Len(dynamic_patterns[n].prefix.s) :
              dynamic_patterns[n].prefix.s[c] = key[c]}

(* C4 - Prefix patterns.  Once the classification loop has run, a defined  *)
(* key that is neither in used_keys nor in deep_recovered is in            *)
(* possibly_dynamic exactly when some recorded pattern has a non-empty     *)
(* prefix (not None) that starts the key; its matched_pattern and          *)
(* pattern_file are then those of the first such pattern of                *)
(* dynamic_patterns; otherwise it is in unused.                            *)
C4_PrefixFirstMatch ==
    AfterClassify =>
        \A key \in defined_keys_set \ (used_keys \cup deep_recovered) :
            IF PrefixHits(key) # {}
            THEN /\ key \in DOMAIN possibly_dynamic
                 /\ key \notin DOMAIN unused
                 /\ \E n \in PrefixHits(key) :
                      /\ \A m \in PrefixHits(key) : n <= m
                      /\ possibly_dynamic[key].matched_pattern
                           = dynamic_patterns[n].pattern
                      /\ possibly_dynamic[key].pattern_file
                           = dynamic_patterns[n].file
            ELSE /\ key \in DOMAIN unused
                 /\ key \notin DOMAIN possibly_dynamic

\* a finished run where two recorded patterns with different texts both
\* start a key that only the patterns explain, a variable-reference pattern
\* and an empty prefix being recorded too
C4_Witness ==
    /\ pc = "done"
    /\ \E key \in defined_keys_set \ (used_keys \cup deep_recovered) :
        \E n \in PrefixHits(key) : \E m \in PrefixHits(key) :
            /\ n < m
            /\ dynamic_patterns[n].pattern # dynamic_patterns[m].pattern
    /\ \E n \in 1..Len(dynamic_patterns) : dynamic_patterns[n].prefix.isNone
    /\ \E n \in 1..Len(dynamic_patterns) :
        ~dynamic_patterns[n].prefix.isNone /\ dynamic_patterns[n].prefix.s = <<>>
    /\ DOMAIN unused # {}

-----------------------------------------------------------------------------
(* C5 - Evidence union.  At every point of the run, the locations recorded *)
(* for a string are exactly the relative paths of the files phase 1 has    *)
(* been through, could read, and found a direct reference to it in (so     *)
(* they only grow from file to file); in the report, the locations of a    *)
(* USED key list exactly those paths, for all the files, each once.        *)
C5_EvidenceUnion ==
    /\ \A key \in DOMAIN key_usage_locations \cup defined_keys_set :
        LocGet(key_usage_locations, key)
            = {RelPath(f, ROOT) : f \in DirectFiles(key) \cap Phase1Seen}
    /\ pc = "done" =>
        \A key \in DOMAIN result.used :
            /\ Range(result.used[key].locations)
                 = {RelPath(f, ROOT) : f \in DirectFiles(key)}
            /\ Len(result.used[key].locations)
                 = Cardinality(DirectFiles(key))

\* a finished run where a USED key is directly referenced from two files
C5_Witness ==
    /\ pc = "done"
    /\ \E key \in DOMAIN result.used : Cardinality(DirectFiles(key)) = 2

-----------------------------------------------------------------------------
(* C6 - Test-only.  Once the test-only loop has run, a string is in        *)
(* test_only exactly when it is a key of used and every file of its        *)
(* reported locations is a test file; no key of possibly_dynamic or of     *)
(* unused is in it, and the report lists exactly test_only.                *)
C6_TestOnly ==
    pc \in {"emit", "done"} =>
        /\ \A key \in test_only \cup DOMAIN used \cup defined_keys_set :
            key \in test_only
                <=> /\ key \in DOMAIN used
                    /\ \A n \in 1..Len(used[key].locations) :
                          is_test_file(used[key].locations[n])
        /\ test_only \cap (DOMAIN possibly_dynamic \cup DOMAIN unused) = {}
        /\ pc = "done" => Range(result.test_only_keys) = test_only

\* a finished run with a test-only key whose evidence is two test files
C6_Witness ==
    /\ pc = "done"
    /\ \E key \in test_only :
        /\ Len(used[key].locations) = 2
        /\ key \in Range(result.test_only_keys)

-----------------------------------------------------------------------------
(* C7 - Unreadable files.  A file whose phase-1 read fails is in no        *)
(* string's locations, in no recorded dynamic pattern and in no            *)
(* pattern_file taken from a pattern; a file whose deep-scan read fails is *)
(* in no key's recovery locations, and the pattern_file of a deep-scan     *)
(* entry joins exactly the files the deep scan read and found the key in.  *)
(* The run is never stuck before the report, and the report classifies     *)
(* every defined key.                                                      *)
C7_UnreadableSkipped ==
    /\ \A f \in Range(source_files) :
        /\ ~disk[f].open1 =>
            /\ \A key \in DOMAIN key_usage_locations :
                  RelPath(f, ROOT) \notin key_usage_locations[key]
            /\ \A n \in 1..Len(dynamic_patterns) :
                  dynamic_patterns[n].file # RelPath(f, ROOT)
            /\ \A key \in DOMAIN used :
                  RelPath(f, ROOT) \notin Range(used[key].locations)
            /\ \A key \in DOMAIN possibly_dynamic :
                  possibly_dynamic[key].matched_pattern # StringLiteralReference
                      => possibly_dynamic[key].pattern_file # RelPath(f, ROOT)
        /\ ~disk[f].open2 =>
            \A key \in DOMAIN deep_locations :
                RelPath(f, ROOT) \notin deep_locations[key]
    /\ \A key \in DOMAIN possibly_dynamic :
        possibly_dynamic[key].matched_pattern = StringLiteralReference
            => possibly_dynamic[key].pattern_file
                 = Join(<<",", " ">>,
                        Sorted({RelPath(g, ROOT) : g \in LiteralFiles(key)}))
    /\ pc # "done" => ENABLED Next
    /\ pc = "done" =>
        \A key \in DictKeys(flatten_keys(en_data, <<>>)) :
            BucketIn(result, key) # "NONE"

\* a finished run with a file neither read succeeds on, holding a direct
\* reference to a defined key that is also a quoted dot-path literal, the key
\* ending UNUSED
C7_Witness ==
    /\ pc = "done"
    /\ \E f \in Range(source_files) :
        /\ ~disk[f].open1
        /\ ~disk[f].open2
        /\ \E key \in defined_keys_set :
            /\ key \in extract_t_calls(disk[f].content)
            /\ key \in DeepLiterals(disk[f].content)
            /\ BucketIn(result, key) = "UNUSED"

-----------------------------------------------------------------------------
(* C8 - Literals that are no key.  For every occurrence in a file of the   *)
(* run that the direct or the deep scanner matches and whose text is not a *)
(* defined key: the text is a key of none of the three maps and is not     *)
(* listed test-only, and the run on the same files with that occurrence    *)
(* taken out of the file gives the same report.                            *)
C8_NonKeyLiteralInert ==
    pc = "done" =>
        \A f \in Range(source_files) :
            \A n \in 1..Len(disk[f].content) :
                LET tok == disk[f].content[n]
                IN ( /\ DirectMatch(tok) \/ DeepMatch(tok)
                     /\ tok.text \notin defined_keys_set )
                    => /\ tok.text \notin DOMAIN result.used
                       /\ tok.text \notin DOMAIN result.possibly_dynamic
                       /\ tok.text \notin DOMAIN result.unused
                       /\ tok.text \notin Range(result.test_only_keys)
                       /\ RunMain(en_data, source_files,
                              [disk EXCEPT ![f].content = RemoveAt(@, n)])
                            = result

\* a finished run where a test file that both scans read holds a direct
\* reference to a string that is no key beside one to a key, which is
\* listed test-only
C8_Witness ==
    /\ pc = "done"
    /\ \E f \in Range(source_files) :
        /\ disk[f].open1
        /\ disk[f].open2
        /\ is_test_file(RelPath(f, ROOT))
        /\ \E n \in 1..Len(disk[f].content) :
            /\ DirectMatch(disk[f].content[n])
            /\ DeepMatch(disk[f].content[n])
            /\ disk[f].content[n].text \notin defined_keys_set
        /\ \E key \in test_only : f \in DirectFiles(key)

-----------------------------------------------------------------------------
\* the leaves of a document in the order flatten_keys visits them, each
\* with its path of segments from the root
RECURSIVE Visit(_, _)
Visit(items, path) ==
    IF items = <<>> THEN <<>>
    ELSE (IF items[1].v.isdict
          THEN Visit(items[1].v.items, Append(path, items[1].k))
          ELSE << [path |-> Append(path, items[1].k), leaf |-> items[1].v] >>)
         \o Visit(Tail(items), path)

DotJoin(path) == Join(<<".">>, path)

FlattenAgrees(doc, flat) ==
    LET vis == Visit(doc, <<>>)
    IN /\ DictKeys(flat) = {DotJoin(vis[n].path) : n \in 1..Len(vis)}
       /\ \A a \in 1..Len(flat) : \A b \in 1..Len(flat) :
            flat[a].k = flat[b].k => a = b
       /\ \A a \in 1..Len(flat) :
            LET last == CHOOSE n \in 1..Len(vis) :
                            /\ DotJoin(vis[n].path) = flat[a].k
                            /\ \A m \in 1..Len(vis) :
                                 DotJoin(vis[m].path) = flat[a].k => m <= n
            IN flat[a].v = Str(vis[last].leaf)
       /\ flatten_keys(doc, <<>>) = flat

(* C9 - flatten_keys.  The keys of the flat map are exactly the dot-joined *)
(* root-to-leaf paths of the document, no key stands twice, each key maps  *)
(* to the stringified leaf of the last visited path that joins to it, and  *)
(* flattening the document again gives the same map.                       *)
C9_FlattenPaths == pc # "load" => FlattenAgrees(en_data, all_keys)

-----------------------------------------------------------------------------
(* C10 - Order of the files.  For every other order of the run's files,    *)
(* the scans gather the same used_keys, the same locations for each of     *)
(* them, the same deep_recovered with the same recovering files, and the   *)
(* report has the same used map and the same keys in possibly_dynamic and  *)
(* in unused; the run on the order as given yields the report itself.      *)
C10_OrderInsensitive ==
    pc = "done" =>
        \A fl \in Orders(source_files) \ {source_files} :
            LET ev == RunEvidence(en_data, fl, disk)
                r == ReportFrom(en_data, ev)
            IN /\ ev.used_keys = used_keys
               /\ \A key \in used_keys :
                    LocGet(ev.key_usage_locations, key)
                        = LocGet(key_usage_locations, key)
               /\ ev.deep_recovered = deep_recovered
               /\ \A key \in deep_recovered :
                    LocGet(ev.deep_locations, key) = LocGet(deep_locations, key)
               /\ DOMAIN r.possibly_dynamic = DOMAIN result.possibly_dynamic
               /\ DOMAIN r.unused = DOMAIN result.unused
               /\ r.used = result.used
               /\ RunMain(en_data, source_files, disk) = result

\* a finished run of two files or more, with a key recovered by the deep
\* scan from two files
C10_Witness ==
    /\ pc = "done"
    /\ Len(source_files) >= 2
    /\ \E key \in deep_recovered : Cardinality(deep_locations[key]) >= 2

====
